---- MODULE Spec2Model ----
(***************************************************************************)
(* The two PyFlink driver scripts, python/S3Sink/main.py and               *)
(* python/FirehoseSink/main.py.  Each script runs its module-level code    *)
(* (reads IS_LOCAL, configures the table environment), then main():        *)
(* loads the application properties, looks the sink target up, defines the *)
(* source and sink tables, submits the INSERT and, in local mode, waits.   *)
(*                                                                         *)
(* Two executions of the same job run side by side against one file        *)
(* system, each with its own value of IS_LOCAL, so that the effect of the  *)
(* run mode can be compared between executions.                            *)
(***************************************************************************)
EXTENDS Integers, Sequences, FiniteSets, TLC

\* Longest property-group list in a properties file.
MaxGroups == 2

Runs == {"run1", "run2"}

Jobs == {"S3Sink", "FirehoseSink"}

\* Optional values: Python's None and a present value.
None == << >>

Some(x) == << x >>

\* os.environ.get("IS_LOCAL"): the variable is unset, or set to a string.
EnvUnset == "<unset>"

EnvValues == {EnvUnset, "", "true", "false"}

\* The truth value Python gives os.environ.get("IS_LOCAL").
is_local_of(v) == IF v = EnvUnset \/ v = "" THEN FALSE ELSE TRUE

ClusterPropertiesPath == "/etc/flink/application_properties.json"

LocalPropertiesPath == "application_properties.json"

Paths == {ClusterPropertiesPath, LocalPropertiesPath}

\* APPLICATION_PROPERTIES_FILE_PATH after the module-level code.
PropertiesPathOf(local) == IF local THEN LocalPropertiesPath ELSE ClusterPropertiesPath

ConfigKeys == {"pipeline.jars", "execution.checkpointing.mode", "execution.checkpointing.interval"}

NotSet == "<not set>"

\* What the engine may hand the script as the table environment's configuration:
\* nothing set (a bare local environment), or the checkpointing the application
\* configuration of the managed service asks for.
InitialConfigurations ==
    { [k \in ConfigKeys |-> NotSet],
      [k \in ConfigKeys |->
          CASE k = "pipeline.jars" -> NotSet
            [] k = "execution.checkpointing.mode" -> "EXACTLY_ONCE"
            [] k = "execution.checkpointing.interval" -> "1 min"],
      [k \in ConfigKeys |->
          CASE k = "pipeline.jars" -> NotSet
            [] k = "execution.checkpointing.mode" -> "AT_LEAST_ONCE"
            [] k = "execution.checkpointing.interval" -> "5 min"] }

PipelineJar == "file:///<CURRENT_DIR>/target/pyflink-dependencies.jar"

\* A local-mode block that sets pipeline.jars and leaves checkpointing alone.
JarsOnlyConfiguration(j, local, base) ==
    IF local THEN [base EXCEPT !["pipeline.jars"] = PipelineJar] ELSE base

\* The set_string calls of the `if is_local:` block, applied to configuration base.
LocalModeConfiguration(j, local, base) ==
    IF ~local THEN base
    ELSE IF j = "S3Sink"
         THEN [base EXCEPT !["pipeline.jars"] = PipelineJar,
                           !["execution.checkpointing.mode"] = "EXACTLY_ONCE",
                           !["execution.checkpointing.interval"] = "1 min"]
         ELSE [base EXCEPT !["pipeline.jars"] = PipelineJar]

\* The print calls of the `if is_local:` block.
LocalModeOutput(local) ==
    IF local THEN << [text |-> "PyFlink home", names |-> "<pyflink dir>"],
                     [text |-> "Logging directory", names |-> "<pyflink dir>/log"] >>
    ELSE << >>

\* ---------------------------------------------------------------------
\* The application properties file: a JSON list of property groups.

GroupIds == {"bucket", "OutputDeliveryStream0"}

KeysOf(g) == IF g = "bucket" THEN {"name"} ELSE {"stream.name", "aws.region"}

ValuesOf(k) ==
    CASE k = "name" -> {"bucket-a"}
      [] k = "stream.name" -> {"stream-a"}
      [] k = "aws.region" -> {"us-east-1"}

PropertyMaps(g) == UNION {{m \in [K -> UNION {ValuesOf(k) : k \in K}] :
                              \A k \in K : m[k] \in ValuesOf(k)} : K \in SUBSET KeysOf(g)}

PropertyGroups == UNION {{[PropertyGroupId |-> g, PropertyMap |-> m] : m \in PropertyMaps(g)} :
                            g \in GroupIds}

\* What json.loads returns for the files considered.
FileContents == UNION {[1..n -> PropertyGroups] : n \in 0..MaxGroups}

\* ---------------------------------------------------------------------
\* Expression results: a value, or a raised exception.

Return(v) == [exc |-> None, val |-> v]

Raise(t, a) == [exc |-> Some([type |-> t, arg |-> a]), val |-> None]

NotIterable == "'NoneType' object is not iterable"

NotSubscriptable == "'NoneType' object is not subscriptable"

SetMin(S) == CHOOSE i \in S : \A j \in S : i <= j

\* property_map(props, property_group_id): the PropertyMap of the first group
\* of that id, None when the loop ends without a match; iterating None raises.
property_map(p, property_group_id) ==
    IF p = None THEN Raise("TypeError", NotIterable)
    ELSE LET groups == p[1]
             hits == {i \in 1..Len(groups) : groups[i].PropertyGroupId = property_group_id}
         IN  IF hits = {} THEN Return(None)
             ELSE Return(Some(groups[SetMin(hits)].PropertyMap))

\* <expression>[key] on the result of property_map.
Subscript(res, key) ==
    IF res.exc # None THEN res
    ELSE IF res.val = None THEN Raise("TypeError", NotSubscriptable)
    ELSE IF key \in DOMAIN res.val[1] THEN Return(Some(res.val[1][key]))
    ELSE Raise("KeyError", key)

\* ---------------------------------------------------------------------
\* Table definitions and the INSERT statement.

SourceTable(j) ==
    [name |-> "sensor_readings",
     columns |-> << <<"sensor_id", "INT">>,
                    <<"temperature", IF j = "S3Sink" THEN "NUMERIC(6,2)" ELSE "DOUBLE">>,
                    <<"measurement_time", "TIMESTAMP(3)">> >>,
     partitioned_by |-> <<"sensor_id">>,
     options |-> << <<"connector", "datagen">>,
                    <<"fields.sensor_id.min", "10">>,
                    <<"fields.sensor_id.max", "20">>,
                    <<"fields.temperature.min", "0">>,
                    <<"fields.temperature.max", "100">> >>]

S3SinkTable(bucket) ==
    [name |-> "sensors_out",
     columns |-> << <<"sensor_id", "INT NOT NULL">>,
                    <<"temperature", "NUMERIC(6,2) NOT NULL">>,
                    <<"time", "TIMESTAMP_LTZ(3) NOT NULL">> >>,
     partitioned_by |-> <<"sensor_id">>,
     options |-> << <<"connector", "filesystem">>,
                    <<"path", "s3a://", bucket, "/pyflinkl-filesink-example-output/">>,
                    <<"format", "json">>,
                    <<"json.timestamp-format.standard", "ISO-8601">>,
                    <<"sink.partition-commit.policy.kind", "success-file">>,
                    <<"sink.partition-commit.delay", "1 min">> >>]

FirehoseSinkTable(stream, region) ==
    [name |-> "output",
     columns |-> << <<"sensor_id", "INT">>,
                    <<"temperature_f", "DOUBLE">>,
                    <<"measurement_time", "TIMESTAMP(3)">> >>,
     partitioned_by |-> << >>,
     options |-> << <<"connector", "firehose">>,
                    <<"delivery-stream", stream>>,
                    <<"aws.region", region>>,
                    <<"format", "json">>,
                    <<"json.timestamp-format.standard", "ISO-8601">> >>]

InsertStatement(j) ==
    IF j = "S3Sink"
    THEN [into |-> "sensors_out", from |-> "sensor_readings",
          select |-> <<"sensor_id", "temperature", "measurement_time AS time">>]
    ELSE [into |-> "output", from |-> "sensor_readings",
          select |-> <<"sensor_id", "temperature", "measurement_time">>]

\* ---------------------------------------------------------------------
\* State.

VARIABLES
    job,            \* which script is executed
    env,            \* env[r]: the value of IS_LOCAL in execution r
    fs,             \* fs[p]: None when no file is at path p, else Some(parsed content)
    pc,             \* pc[r]: position of execution r in the script
    is_local,       \* the module-level flag
    properties_path, \* APPLICATION_PROPERTIES_FILE_PATH
    configuration,  \* table_env.get_config().get_configuration()
    stdout,         \* what print wrote
    props,          \* main's props
    bucket_name,    \* main's s3_bucket_name (S3Sink)
    stream_name,    \* main's output_delivery_stream_name (FirehoseSink)
    stream_region,  \* main's output_delivery_stream_region (FirehoseSink)
    catalog,        \* tables defined by execute_sql, in order
    table_result,   \* the submitted INSERT job, None before
    uncaught,       \* the exception that ended the execution, None otherwise
    initial_configuration, \* the configuration TableEnvironment.create starts from
    exit_status     \* the process exit status once exited

vars == << job, env, fs, pc, is_local, properties_path, configuration, stdout, props,
           bucket_name, stream_name, stream_region, catalog, table_result, uncaught,
           initial_configuration, exit_status >>

Running == -1

Init ==
    /\ job \in Jobs
    /\ env \in [Runs -> EnvValues]
    /\ \E content \in FileContents, present \in SUBSET Paths :
          fs = [p \in Paths |-> IF p \in present THEN Some(content) ELSE None]
    /\ pc = [r \in Runs |-> "module"]
    /\ is_local = [r \in Runs |-> FALSE]
    /\ properties_path = [r \in Runs |-> ClusterPropertiesPath]
    /\ initial_configuration \in InitialConfigurations
    /\ configuration = [r \in Runs |-> initial_configuration]
    /\ stdout = [r \in Runs |-> << >>]
    /\ props = [r \in Runs |-> None]
    /\ bucket_name = [r \in Runs |-> None]
    /\ stream_name = [r \in Runs |-> None]
    /\ stream_region = [r \in Runs |-> None]
    /\ catalog = [r \in Runs |-> << >>]
    /\ table_result = [r \in Runs |-> None]
    /\ uncaught = [r \in Runs |-> None]
    /\ exit_status = [r \in Runs |-> Running]

\* ---------------------------------------------------------------------
\* Steps of one execution.

\* The module-level code: is_local from the environment, and the local-mode block.
ModuleLevel(r) ==
    /\ pc[r] = "module"
    /\ LET local == is_local_of(env[r]) IN
          /\ is_local' = [is_local EXCEPT ![r] = local]
          /\ properties_path' = [properties_path EXCEPT ![r] = PropertiesPathOf(local)]
          /\ configuration' = [configuration EXCEPT ![r] = LocalModeConfiguration(job, local, configuration[r])]
          /\ stdout' = [stdout EXCEPT ![r] = LocalModeOutput(local)]
    /\ pc' = [pc EXCEPT ![r] = "get_properties"]
    /\ UNCHANGED << job, env, fs, initial_configuration, props, bucket_name, stream_name, stream_region, catalog,
                    table_result, uncaught, exit_status >>

\* props = get_application_properties(): the parsed file, or a printed message
\* and an implicit None when no file is at the path.
get_application_properties(r) ==
    /\ pc[r] = "get_properties"
    /\ IF fs[properties_path[r]] # None
       THEN /\ props' = [props EXCEPT ![r] = fs[properties_path[r]]]
            /\ UNCHANGED stdout
       ELSE /\ props' = [props EXCEPT ![r] = None]
            /\ stdout' = [stdout EXCEPT ![r] =
                            Append(@, [text |-> "A file at {} was not found",
                                       names |-> properties_path[r]])]
    /\ pc' = [pc EXCEPT ![r] = IF job = "S3Sink" THEN "bucket" ELSE "stream_name"]
    /\ UNCHANGED << job, env, fs, initial_configuration, is_local, properties_path, configuration, bucket_name,
                    stream_name, stream_region, catalog, table_result, uncaught, exit_status >>

\* An exception nobody catches: traceback, exit status 1.
Die(r, e) ==
    /\ uncaught' = [uncaught EXCEPT ![r] = e]
    /\ exit_status' = [exit_status EXCEPT ![r] = 1]
    /\ pc' = [pc EXCEPT ![r] = "exited"]

\* s3_bucket_name = property_map(props, "bucket")["name"]
RetrieveBucketName(r) ==
    /\ pc[r] = "bucket"
    /\ LET res == Subscript(property_map(props[r], "bucket"), "name") IN
          IF res.exc # None
          THEN /\ Die(r, res.exc)
               /\ UNCHANGED bucket_name
          ELSE /\ bucket_name' = [bucket_name EXCEPT ![r] = res.val]
               /\ pc' = [pc EXCEPT ![r] = "source"]
               /\ UNCHANGED << uncaught, exit_status >>
    /\ UNCHANGED << job, env, fs, initial_configuration, is_local, properties_path, configuration, stdout, props,
                    stream_name, stream_region, catalog, table_result >>

\* output_delivery_stream_name = property_map(props, "OutputDeliveryStream0")["stream.name"]
RetrieveStreamName(r) ==
    /\ pc[r] = "stream_name"
    /\ LET res == Subscript(property_map(props[r], "OutputDeliveryStream0"), "stream.name") IN
          IF res.exc # None
          THEN /\ Die(r, res.exc)
               /\ UNCHANGED stream_name
          ELSE /\ stream_name' = [stream_name EXCEPT ![r] = res.val]
               /\ pc' = [pc EXCEPT ![r] = "stream_region"]
               /\ UNCHANGED << uncaught, exit_status >>
    /\ UNCHANGED << job, env, fs, initial_configuration, is_local, properties_path, configuration, stdout, props,
                    bucket_name, stream_region, catalog, table_result >>

\* output_delivery_stream_region = property_map(props, "OutputDeliveryStream0")["aws.region"]
RetrieveStreamRegion(r) ==
    /\ pc[r] = "stream_region"
    /\ LET res == Subscript(property_map(props[r], "OutputDeliveryStream0"), "aws.region") IN
          IF res.exc # None
          THEN /\ Die(r, res.exc)
               /\ UNCHANGED stream_region
          ELSE /\ stream_region' = [stream_region EXCEPT ![r] = res.val]
               /\ pc' = [pc EXCEPT ![r] = "source"]
               /\ UNCHANGED << uncaught, exit_status >>
    /\ UNCHANGED << job, env, fs, initial_configuration, is_local, properties_path, configuration, stdout, props,
                    bucket_name, stream_name, catalog, table_result >>

\* execute_sql(CREATE TABLE sensor_readings ...)
DefineSourceTable(r) ==
    /\ pc[r] = "source"
    /\ catalog' = [catalog EXCEPT ![r] = Append(@, SourceTable(job))]
    /\ pc' = [pc EXCEPT ![r] = "sink"]
    /\ UNCHANGED << job, env, fs, initial_configuration, is_local, properties_path, configuration, stdout, props,
                    bucket_name, stream_name, stream_region, table_result, uncaught,
                    exit_status >>

\* execute_sql(CREATE TABLE sensors_out ...) / execute_sql(CREATE TABLE output ...)
DefineSinkTable(r) ==
    /\ pc[r] = "sink"
    /\ catalog' = [catalog EXCEPT ![r] =
                     Append(@, IF job = "S3Sink"
                               THEN S3SinkTable(bucket_name[r][1])
                               ELSE FirehoseSinkTable(stream_name[r][1], stream_region[r][1]))]
    /\ pc' = [pc EXCEPT ![r] = "insert"]
    /\ UNCHANGED << job, env, fs, initial_configuration, is_local, properties_path, configuration, stdout, props,
                    bucket_name, stream_name, stream_region, table_result, uncaught,
                    exit_status >>

\* table_result = execute_sql(INSERT INTO ...): the job is submitted.
SubmitInsert(r) ==
    /\ pc[r] = "insert"
    /\ table_result' = [table_result EXCEPT ![r] = Some(InsertStatement(job))]
    /\ pc' = [pc EXCEPT ![r] = "end"]
    /\ UNCHANGED << job, env, fs, initial_configuration, is_local, properties_path, configuration, stdout, props,
                    bucket_name, stream_name, stream_region, catalog, uncaught, exit_status >>

\* Where main goes after the INSERT: table_result.wait() in local mode, which
\* blocks on the unbounded job; otherwise main returns and the process ends.
AfterInsert(local) == IF local THEN "waiting" ELSE "exited"

\* if is_local: table_result.wait()
WaitOrReturn(r) ==
    /\ pc[r] = "end"
    /\ pc' = [pc EXCEPT ![r] = AfterInsert(is_local[r])]
    /\ exit_status' = [exit_status EXCEPT ![r] =
                         IF AfterInsert(is_local[r]) = "exited" THEN 0 ELSE Running]
    /\ UNCHANGED << job, env, fs, initial_configuration, is_local, properties_path, configuration, stdout, props,
                    bucket_name, stream_name, stream_region, catalog, table_result, uncaught >>

Next ==
    \E r \in Runs :
        \/ ModuleLevel(r)
        \/ get_application_properties(r)
        \/ RetrieveBucketName(r)
        \/ RetrieveStreamName(r)
        \/ RetrieveStreamRegion(r)
        \/ DefineSourceTable(r)
        \/ DefineSinkTable(r)
        \/ SubmitInsert(r)
        \/ WaitOrReturn(r)

Spec == Init /\ [][Next]_vars

\* ---------------------------------------------------------------------
\* Missing configuration.

RequiredGroup(j) == IF j = "S3Sink" THEN "bucket" ELSE "OutputDeliveryStream0"

RequiredKeys(j) == IF j = "S3Sink" THEN {"name"} ELSE {"stream.name", "aws.region"}

\* What execution r lacks of its configuration: the properties file, else the
\* property group, else the keys of the group that main reads.
MissingItems(r) ==
    LET f == fs[properties_path[r]] IN
    IF f = None THEN {properties_path[r]}
    ELSE LET m == property_map(f, RequiredGroup(job)).val IN
         IF m = None THEN {RequiredGroup(job)}
         ELSE {k \in RequiredKeys(job) : k \notin DOMAIN m[1]}

Retrieving(r) == pc[r] \in {"module", "get_properties", "bucket", "stream_name", "stream_region"}

\* The output of execution r names x: a printed message or the uncaught
\* exception's message carries it.
Named(r, x) ==
    \/ \E i \in 1..Len(stdout[r]) : stdout[r][i].names = x
    \/ uncaught[r] # None /\ uncaught[r][1].arg = x

\* With configuration missing, main ends by an uncaught exception with exit
\* status 1 before any table is defined or any job submitted.
MissingConfigurationStopsBeforeTables ==
    \A r \in Runs :
        (pc[r] # "module" /\ MissingItems(r) # {}) =>
            /\ catalog[r] = << >>
            /\ table_result[r] = None
            /\ ~Retrieving(r) => pc[r] = "exited" /\ exit_status[r] = 1 /\ uncaught[r] # None

\* C7: when the properties file, a required property group or a required key is
\* missing, main terminates with a non-zero status and a message naming what is
\* missing, and defines no table and submits no INSERT.
C7_MissingConfigurationFatalAndNamed ==
    \A r \in Runs :
        (pc[r] # "module" /\ MissingItems(r) # {}) =>
            /\ catalog[r] = << >>
            /\ table_result[r] = None
            /\ ~Retrieving(r) =>
                  /\ pc[r] = "exited"
                  /\ exit_status[r] \notin {Running, 0}
                  /\ \E x \in MissingItems(r) : Named(r, x)

\* ---------------------------------------------------------------------
\* The run mode.

CheckpointKeys == {"execution.checkpointing.mode", "execution.checkpointing.interval"}

\* C8 (as stated): the run mode only decides whether main blocks; the
\* checkpointing mode and interval of the S3 sink job are the same in a local
\* and a non-local execution given the same inputs.
C8_RunModeLeavesCheckpointingAlone ==
    \A r1, r2 \in Runs :
        (job = "S3Sink" /\ table_result[r1] # None /\ table_result[r2] # None) =>
            \A k \in CheckpointKeys : configuration[r1][k] = configuration[r2][k]

\* C8 (amended): besides deciding whether main blocks on the job (local) or
\* returns after submitting it (non-local), local mode selects the local
\* properties file and sets pipeline.jars, and in the S3 sink job it sets the
\* checkpointing mode to EXACTLY_ONCE and the interval to 1 min; a non-local
\* execution leaves the configuration as it was given.  The tables defined and
\* the INSERT submitted are the same in both modes.
C8_RunModeEffects ==
    \A r1, r2 \in Runs :
        (pc[r1] # "module" /\ pc[r2] # "module" /\ is_local[r1] /\ ~is_local[r2]) =>
            /\ pc[r1] = "exited" => uncaught[r1] # None
            /\ pc[r2] # "waiting"
            /\ pc[r2] = "exited" /\ uncaught[r2] = None => table_result[r2] # None
            /\ properties_path[r1] = LocalPropertiesPath
            /\ properties_path[r2] = ClusterPropertiesPath
            /\ configuration[r2] = initial_configuration
            /\ configuration[r1]["pipeline.jars"] = PipelineJar
            /\ job = "S3Sink" =>
                  /\ configuration[r1]["execution.checkpointing.mode"] = "EXACTLY_ONCE"
                  /\ configuration[r1]["execution.checkpointing.interval"] = "1 min"
            /\ job = "FirehoseSink" =>
                  \A k \in CheckpointKeys : configuration[r1][k] = initial_configuration[k]
            /\ (table_result[r1] # None /\ table_result[r2] # None) =>
                  /\ catalog[r1] = catalog[r2]
                  /\ table_result[r1] = table_result[r2]

\* A local execution of the S3 sink job waits on its job while a non-local one,
\* given a configuration without EXACTLY_ONCE checkpointing, has returned.
C8_Witness ==
    \E r1, r2 \in Runs :
        /\ job = "S3Sink"
        /\ is_local[r1] /\ pc[r1] = "waiting"
        /\ ~is_local[r2] /\ pc[r2] = "exited" /\ exit_status[r2] = 0
        /\ configuration[r2]["execution.checkpointing.mode"] # "EXACTLY_ONCE"

====
